---- MODULE Spec2Model ----
(***************************************************************************)
(* A model of havoc.hpp: the global sequence counter, optional<T> (a box   *)
(* holding zero or one value behind a unique_ptr), option<T> (a box plus   *)
(* the timestamp of its last write), one_of<T...> (one option<T> per type  *)
(* of a type list) and visitor_helper / visit (resolution of the most      *)
(* recently written alternative).                                          *)
(*                                                                         *)
(* An optional<T>'s _storage is a sequence of length 0 (null unique_ptr)   *)
(* or 1 (the owned value).  A std::optional<result> is modelled the same   *)
(* way.  An option<T> is a record [storage, timestamp].  A one_of<T...>    *)
(* is a function from the types of its type list to option<T> records.     *)
(*                                                                         *)
(* Four specifications share the state:                                    *)
(*   Spec        two one_of<A, B> objects and every slot operation;        *)
(*   SpecWide    one one_of<A, B, C> object, for the resolution recursion; *)
(*   SpecBox     stand-alone optional<A> objects;                          *)
(*   SpecThreads threads assigning to one one_of<A, B> step by step.       *)
(***************************************************************************)
EXTENDS Integers, Sequences, FiniteSets, TLC

\* ------------------------------------------------------------------ bounds

\* Largest value the counter is allowed to reach in a run (the code's counter
\* is 64 bits wide; the guards stop the model before MaxCounter is passed).
MaxCounter == 3

\* Values of every alternative type are 0..MaxVal.
MaxVal == 1

\* ------------------------------------------------------- instantiation

\* The type list of the one_of<A, B> objects x and y, in declaration order.
TypeList == <<"A", "B">>

Types == {TypeList[i] : i \in 1..Len(TypeList)}

\* The type list of the one_of<A, B, C> object z.
WideList == <<"A", "B", "C">>

WideTypes == {WideList[i] : i \in 1..Len(WideList)}

\* The one_of<A, B> objects of the program.
Sets == {"x", "y"}

\* The stand-alone optional<A> objects of the program.
Boxes == {"p", "q", "r"}

\* The threads that assign to x.
\* The addresses the allocator hands out: one per box is enough, since every
\* box owns at most one object.
Addrs == 1..Cardinality(Boxes)

Threads == {"t1", "t2"}

Values == 0..MaxVal

\* T{} : the value-initialised value of an alternative type.
Default == 0

\* result{} : the value-initialised value of the visitor's result type.
DefaultResult == 0

\* visitor.visit(value) for a value of alternative type t: the handler used
\* here numbers the (type, value) pairs, so it is injective, and it maps the
\* first type's default value to the result type's default value as an
\* identity handler on an int alternative does.
TypeIndex(t) == CHOOSE i \in 1..Len(WideList) : WideList[i] = t

VisitorVisit(t, v) == (TypeIndex(t) - 1) * (MaxVal + 1) + v

Results == {VisitorVisit(t, v) : t \in WideTypes, v \in Values}

\* ------------------------------------------------------------ optional<T>

\* optional() = default : null _storage.
optional_default == <<>>

\* optional(const T& value) / optional(T&& value) : make_unique<T>(value).
optional_from_value(v) == <<v>>

\* operator bool : _storage.get() is not null.
has_value(st) == st # <<>>

\* A get_or_create that allocates a value-initialised T on every call.
get_or_create_fresh(st) == <<Default>>

\* get_or_create : allocate a value-initialised T when _storage is null; the
\* storage afterwards (the reference returned is to its element).
get_or_create(st) == IF ~has_value(st) THEN <<Default>> ELSE st

\* optional(optional&& other) : steals other's pointer.
optional_move_ctor(other) == [self |-> other, other |-> <<>>]

\* optional(const optional& other) : starts null, copies when other is set.
optional_copy_ctor(other) ==
    IF has_value(other)
    THEN [get_or_create(optional_default) EXCEPT ![1] = other[1]]
    ELSE optional_default

\* operator=(const T&) / operator=(T&&) : get_or_create() = value.
optional_assign_value(self, v) == [get_or_create(self) EXCEPT ![1] = v]

\* operator=(const optional& other) : copies only when other is set.
optional_copy_assign(self, other) ==
    IF has_value(other)
    THEN [get_or_create(self) EXCEPT ![1] = other[1]]
    ELSE self

\* reset : frees the storage.
optional_reset(self) == <<>>

\* -------------------------------------------------------------- option<T>

\* ++_counter on the atomic counter: the value after the increment.
IncrementCounter(c) == c + 1

\* option() : _timestamp(0), empty _storage.
option_default == [storage |-> optional_default, timestamp |-> 0]

\* option(T&& value) : _storage(value), _timestamp(++_counter); c is the
\* counter before the call.
option_from_value(v, c) ==
    [storage |-> optional_from_value(v), timestamp |-> IncrementCounter(c)]

\* option(option<T>&& other) : moves the storage, copies the timestamp; the
\* moved-from slot keeps its timestamp.
option_move_ctor(other) ==
    [self  |-> [storage   |-> optional_move_ctor(other.storage).self,
                timestamp |-> other.timestamp],
     other |-> [storage   |-> optional_move_ctor(other.storage).other,
                timestamp |-> other.timestamp]]

\* A copy constructor that copies the box and leaves the timestamp at its
\* default.
option_copy_ctor_unstamped(other) ==
    [storage |-> optional_copy_ctor(other.storage), timestamp |-> 0]

\* option(const option<T>& other).
option_copy_ctor(other) ==
    [storage |-> optional_copy_ctor(other.storage), timestamp |-> other.timestamp]

\* An assignment that stamps only a slot that has no timestamp yet.
option_assign_value_once(self, v, c) ==
    [storage   |-> optional_assign_value(self.storage, v),
     timestamp |-> IF self.timestamp = 0 THEN IncrementCounter(c) ELSE self.timestamp]

\* An assignment that stamps with _counter++ : the value before the increment.
option_assign_value_post(self, v, c) ==
    [storage   |-> optional_assign_value(self.storage, v),
     timestamp |-> c]

\* operator=(T&& value) : _timestamp = ++_counter; _storage = value.
option_assign_value(self, v, c) ==
    [storage   |-> optional_assign_value(self.storage, v),
     timestamp |-> IncrementCounter(c)]

\* A copy assignment that copies the box and keeps the target's timestamp.
option_copy_assign_unstamped(self, other) ==
    [storage   |-> optional_copy_assign(self.storage, other.storage),
     timestamp |-> self.timestamp]

\* operator=(const option<T>& other).
option_copy_assign(self, other) ==
    [storage   |-> optional_copy_assign(self.storage, other.storage),
     timestamp |-> other.timestamp]

\* A dereference that marks the slot it vivifies as written.
option_deref_stamping(self) ==
    [storage   |-> get_or_create(self.storage),
     timestamp |-> IF has_value(self.storage) THEN self.timestamp ELSE 1]

\* operator* : _storage.get_or_create() on the mutable box.
option_deref(self) ==
    [storage |-> get_or_create(self.storage), timestamp |-> self.timestamp]

\* ------------------------------------------------------- visitor_helper

\* The test written with >= .
newer_or_equal(value, timestamp) == value.timestamp >= timestamp

\* value.timestamp() > timestamp : the test both visit functions make.
newer_than(value, timestamp) == value.timestamp > timestamp

\* The rest of the list searched with the caller's threshold.
inner_threshold_unchanged(value, timestamp) == timestamp

\* The threshold handed to the rest of the list once the head slot is a
\* candidate: value.timestamp().
inner_threshold(value, timestamp) == value.timestamp

\* The head slot preferred to whatever the rest of the list found.
prefer_head(sub, hit) == hit

\* The head's handler call made before the rest of the list is asked: the
\* rest's result is still the one returned, but the handler has run twice.
prefer_eager(sub, hit) == IF sub.result # <<>> THEN [sub EXCEPT !.calls = hit.calls] ELSE hit

\* if (auto result = <rest of the list>) return *result; else return
\* visitor.visit(*value); sub is the rest's outcome, hit the head's (hit.input
\* already holds whatever sub did to the input).
prefer(sub, hit) == IF sub.result # <<>> THEN sub ELSE hit

\* visitor_helper<T, Ts...>::visit and visitor_helper<T>::visit over the type
\* list tl: the std::optional result, the input afterwards (operator* may
\* auto-vivify the mutable storage) and the handler invocations made.
RECURSIVE visitor_helper_visit(_, _, _)
visitor_helper_visit(tl, timestamp, input) ==
    LET T     == Head(tl)
        value == input[T]
        miss  == [result |-> <<>>, input |-> input, calls |-> <<>>]
        Hit(in, calls) ==
            LET after == option_deref(in[T])
            IN  [result |-> <<VisitorVisit(T, after.storage[1])>>,
                 input  |-> [in EXCEPT ![T] = after],
                 calls  |-> Append(calls, <<T, after.storage[1]>>)]
    IN  IF Len(tl) = 1
        THEN IF newer_than(value, timestamp) THEN Hit(input, <<>>) ELSE miss
        ELSE IF newer_than(value, timestamp)
             THEN LET sub == visitor_helper_visit(
                                 Tail(tl), inner_threshold(value, timestamp), input)
                  IN  prefer(sub, Hit(sub.input, sub.calls))
             ELSE visitor_helper_visit(Tail(tl), timestamp, input)

\* visit(visitor, const one_of<T...>&) over the type list tl: threshold 0; the
\* helper's result, or a value-initialised result when the helper returned
\* none.
visit_one_of(tl, input) ==
    LET r == visitor_helper_visit(tl, 0, input)
    IN  [value |-> IF r.result # <<>> THEN r.result[1] ELSE DefaultResult,
         input |-> r.input,
         calls |-> r.calls]

\* A visit that reads the box through get_or_create, as the slots of a one_of
\* are read, and so hands the handler a default value when the box is empty.
visit_optional_vivifying(t, st) == <<VisitorVisit(t, get_or_create(st)[1])>>

\* visit(visitor, const optional<T>&) for a box of alternative type t.
visit_optional(t, st) ==
    IF has_value(st) THEN <<VisitorVisit(t, st[1])>> ELSE <<>>

\* ------------------------------------------------------------------ state

VARIABLES
    counter,    \* _counter
    sets,       \* sets[s][t] : the option<T> base of the one_of<A, B> object s
    wide,       \* wide[t] : the option<T> base of the one_of<A, B, C> object z
    ret,        \* the last operation on z, with its arguments and what it returned
    wideHist,   \* history: wideHist[t] is "empty" since z's slot t was constructed empty,
                \* "vivified" once it has since been dereferenced and nothing else,
                \* "other" after any other operation on it
    assigned,   \* history: assigned[s][t], a nonzero timestamp was written to the slot
    origin,     \* history: origin[s][t], the slot's timestamp stems from a value write
    box,        \* box[b] : the _storage of the optional<A> object b
    boxRet,     \* the last operation on a box, and what it returned
    vivified,   \* history: vivified[b] is "yes" once get_or_create was called on the
                \* empty box b, "moved" once b was moved from after that, and "no"
                \* for a new object and after a reset
    pc,         \* pc[th] : where thread th is in x = T{v}
    arg,        \* arg[th] : the <<T, v>> of thread th's assignment
    local,      \* local[th] : the value ++_counter returned to thread th
    start,      \* history: start[th], the number of draws completed when th's call began
    drawn,      \* history: the values ++_counter returned, in completion order
    valueOf,    \* history: valueOf[t], the value ++_counter returned to the call
                \* whose store of the value was the last into x's slot t, 0 if none
    raced,      \* history: raced[t], a call on x's slot t began while another call
                \* on that slot was in progress
    ptr,        \* ptr[b] is the address box b's _storage points to, 0 for a null pointer
    heap,       \* heap[a] is <<v>> when address a holds a T of value v, <<>> when it is free
    twin        \* history: the pairs {d, s} of boxes where d was copy-constructed or
                \* copy-assigned from s and neither object has been replaced since

slotVars == <<sets, assigned, origin>>

boxVars == <<box, boxRet, vivified>>

threadVars == <<pc, arg, local, start, drawn, valueOf, raced>>

heapVars == <<ptr, heap, twin>>

vars == <<counter, sets, wide, ret, wideHist, assigned, origin, box, boxRet, vivified, pc, arg, local, start, drawn,
          valueOf, raced, ptr, heap, twin>>

EmptySet == [t \in Types |-> option_default]

EmptyWide == [t \in WideTypes |-> option_default]

NoFlags == [t \in Types |-> FALSE]

Init ==
    /\ counter = 0
    /\ sets = [s \in Sets |-> EmptySet]
    /\ wide = EmptyWide
    /\ ret = <<>>
    /\ wideHist = [t \in WideTypes |-> "empty"]
    /\ assigned = [s \in Sets |-> NoFlags]
    /\ origin = [s \in Sets |-> NoFlags]
    /\ box = [b \in Boxes |-> optional_default]
    /\ boxRet = <<>>
    /\ vivified = [b \in Boxes |-> "no"]
    /\ pc = [th \in Threads |-> "idle"]
    /\ arg = [th \in Threads |-> <<>>]
    /\ local = [th \in Threads |-> 0]
    /\ start = [th \in Threads |-> 0]
    /\ drawn = <<>>
    /\ valueOf = [t \in Types |-> 0]
    /\ raced = [t \in Types |-> FALSE]
    /\ ptr = [b \in Boxes |-> 0]
    /\ heap = [a \in Addrs |-> <<>>]
    /\ twin = {}

\* ------------------------------------------ Spec: two one_of<A, B> objects

\* one_of<A, B> s;  (a new object takes the place of s)
ConstructEmpty(s) ==
    /\ sets' = [sets EXCEPT ![s] = EmptySet]
    /\ assigned' = [assigned EXCEPT ![s] = NoFlags]
    /\ origin' = [origin EXCEPT ![s] = NoFlags]
    /\ UNCHANGED <<heapVars, counter, wide, ret, wideHist, boxVars, threadVars>>

\* one_of<A, B> s(T{v});  the inherited option(T&&) builds base t, the other
\* base is default-constructed.
ConstructFromValue(s, t, v) ==
    /\ counter < MaxCounter
    /\ sets' = [sets EXCEPT ![s] = [EmptySet EXCEPT ![t] = option_from_value(v, counter)]]
    /\ counter' = IncrementCounter(counter)
    /\ assigned' = [assigned EXCEPT ![s] = [NoFlags EXCEPT ![t] = TRUE]]
    /\ origin' = [origin EXCEPT ![s] = [NoFlags EXCEPT ![t] = TRUE]]
    /\ UNCHANGED <<heapVars, wide, ret, wideHist, boxVars, threadVars>>

\* s = T{v}; with the slots of one set sharing storage, as the alternatives of
\* a variant do: the write empties the other slots of s.
AssignValueExclusive(s, t, v) ==
    /\ counter < MaxCounter
    /\ sets' = [sets EXCEPT ![s] =
                   [EmptySet EXCEPT ![t] = option_assign_value(sets[s][t], v, counter)]]
    /\ counter' = IncrementCounter(counter)
    /\ assigned' = [assigned EXCEPT ![s][t] = TRUE]
    /\ origin' = [origin EXCEPT ![s][t] = TRUE]
    /\ UNCHANGED <<heapVars, wide, ret, wideHist, boxVars, threadVars>>

\* s = T{v};
AssignValue(s, t, v) ==
    /\ counter < MaxCounter
    /\ sets' = [sets EXCEPT ![s][t] = option_assign_value(sets[s][t], v, counter)]
    /\ counter' = IncrementCounter(counter)
    /\ assigned' = [assigned EXCEPT ![s][t] = TRUE]
    /\ origin' = [origin EXCEPT ![s][t] = TRUE]
    /\ UNCHANGED <<heapVars, wide, ret, wideHist, boxVars, threadVars>>

\* one_of<A, B> d(s);  the implicit copy constructor copies every base.
CopyConstruct(d, s) ==
    /\ d # s
    /\ sets' = [sets EXCEPT ![d] = [t \in Types |-> option_copy_ctor(sets[s][t])]]
    /\ assigned' = [assigned EXCEPT ![d] = [t \in Types |-> sets[s][t].timestamp # 0]]
    /\ origin' = [origin EXCEPT ![d] = origin[s]]
    /\ UNCHANGED <<heapVars, counter, wide, ret, wideHist, boxVars, threadVars>>

\* one_of<A, B> d(std::move(s));  the implicit move constructor moves every
\* base.
MoveConstruct(d, s) ==
    /\ d # s
    /\ sets' = [sets EXCEPT ![d] = [t \in Types |-> option_move_ctor(sets[s][t]).self],
                            ![s] = [t \in Types |-> option_move_ctor(sets[s][t]).other]]
    /\ assigned' = [assigned EXCEPT ![d] = [t \in Types |-> sets[s][t].timestamp # 0]]
    /\ origin' = [origin EXCEPT ![d] = origin[s]]
    /\ UNCHANGED <<heapVars, counter, wide, ret, wideHist, boxVars, threadVars>>

\* static_cast<option<T>&>(d) = static_cast<const option<T>&>(s);
CopyAssign(d, s, t) ==
    /\ d # s
    /\ sets' = [sets EXCEPT ![d][t] = option_copy_assign(sets[d][t], sets[s][t])]
    /\ assigned' = [assigned EXCEPT ![d][t] = assigned[d][t] \/ sets[s][t].timestamp # 0]
    /\ origin' = [origin EXCEPT ![d][t] = origin[s][t]]
    /\ UNCHANGED <<heapVars, counter, wide, ret, wideHist, boxVars, threadVars>>

\* *static_cast<const option<T>&>(s)
Deref(s, t) ==
    /\ sets' = [sets EXCEPT ![s][t] = option_deref(sets[s][t])]
    /\ UNCHANGED <<heapVars, counter, wide, ret, wideHist, assigned, origin, boxVars, threadVars>>

\* visitor_helper<A, B>::visit(timestamp, visitor, s)
HelperVisit(s, timestamp) ==
    /\ sets' = [sets EXCEPT ![s] = visitor_helper_visit(TypeList, timestamp, sets[s]).input]
    /\ UNCHANGED <<heapVars, counter, wide, ret, wideHist, assigned, origin, boxVars, threadVars>>

\* visit(visitor, s)
Visit(s) ==
    /\ sets' = [sets EXCEPT ![s] = visit_one_of(TypeList, sets[s]).input]
    /\ UNCHANGED <<heapVars, counter, wide, ret, wideHist, assigned, origin, boxVars, threadVars>>

Next ==
    \/ \E s \in Sets : ConstructEmpty(s)
    \/ \E s \in Sets, t \in Types, v \in Values : ConstructFromValue(s, t, v)
    \/ \E s \in Sets, t \in Types, v \in Values : AssignValue(s, t, v)
    \/ \E d \in Sets, s \in Sets : CopyConstruct(d, s)
    \/ \E d \in Sets, s \in Sets : MoveConstruct(d, s)
    \/ \E d \in Sets, s \in Sets, t \in Types : CopyAssign(d, s, t)
    \/ \E s \in Sets, t \in Types : Deref(s, t)
    \/ \E s \in Sets, timestamp \in 0..MaxCounter : HelperVisit(s, timestamp)
    \/ \E s \in Sets : Visit(s)

Spec == Init /\ [][Next]_vars

\* ------------------------------------- SpecWide: one one_of<A, B, C> object

\* The history of a slot after a dereference of it.
AfterDeref(h) == IF h = "empty" THEN "vivified" ELSE h

\* The history after a query that handed the slots of calls to the handler,
\* each through a dereference.
AfterCalls(calls) ==
    [t \in WideTypes |->
        IF \E i \in 1..Len(calls) : calls[i][1] = t
        THEN AfterDeref(wideHist[t])
        ELSE wideHist[t]]

\* one_of<A, B, C> z;
WideConstructEmpty ==
    /\ wide' = EmptyWide
    /\ wideHist' = [t \in WideTypes |-> "empty"]
    /\ ret' = <<"write">>
    /\ UNCHANGED <<heapVars, counter, slotVars, boxVars, threadVars>>

\* one_of<A, B, C> z(T{v});
WideConstructFromValue(t, v) ==
    /\ counter < MaxCounter
    /\ wide' = [EmptyWide EXCEPT ![t] = option_from_value(v, counter)]
    /\ counter' = IncrementCounter(counter)
    /\ wideHist' = [u \in WideTypes |-> IF u = t THEN "other" ELSE "empty"]
    /\ ret' = <<"write">>
    /\ UNCHANGED <<heapVars, slotVars, boxVars, threadVars>>

\* z = T{v};
WideAssignValue(t, v) ==
    /\ counter < MaxCounter
    /\ wide' = [wide EXCEPT ![t] = option_assign_value(wide[t], v, counter)]
    /\ counter' = IncrementCounter(counter)
    /\ wideHist' = [wideHist EXCEPT ![t] = "other"]
    /\ ret' = <<"write">>
    /\ UNCHANGED <<heapVars, slotVars, boxVars, threadVars>>

\* one_of<A, B, C>(std::move(z));  z is left moved-from, the temporary dies.
WideMoveFrom ==
    /\ wide' = [t \in WideTypes |-> option_move_ctor(wide[t]).other]
    /\ wideHist' = [t \in WideTypes |-> "other"]
    /\ ret' = <<"write">>
    /\ UNCHANGED <<heapVars, counter, slotVars, boxVars, threadVars>>

\* static_cast<option<T>&>(z) = option<T>();  copy-assignment from a
\* default-constructed temporary.
WideCopyAssignEmpty(t) ==
    /\ wide' = [wide EXCEPT ![t] = option_copy_assign(wide[t], option_default)]
    /\ wideHist' = [wideHist EXCEPT ![t] = "other"]
    /\ ret' = <<"write">>
    /\ UNCHANGED <<heapVars, counter, slotVars, boxVars, threadVars>>

\* *static_cast<const option<T>&>(z)
WideDeref(t) ==
    /\ wide' = [wide EXCEPT ![t] = option_deref(wide[t])]
    /\ wideHist' = [wideHist EXCEPT ![t] = AfterDeref(wideHist[t])]
    /\ ret' = <<"deref", t, option_deref(wide[t]).storage[1]>>
    /\ UNCHANGED <<heapVars, counter, slotVars, boxVars, threadVars>>

\* visitor_helper<A, B, C>::visit(timestamp, visitor, z)
WideHelperVisit(timestamp) ==
    /\ wide' = visitor_helper_visit(WideList, timestamp, wide).input
    /\ wideHist' = AfterCalls(visitor_helper_visit(WideList, timestamp, wide).calls)
    /\ ret' = <<"helper", timestamp, visitor_helper_visit(WideList, timestamp, wide).result>>
    /\ UNCHANGED <<heapVars, counter, slotVars, boxVars, threadVars>>

\* visit(visitor, z)
WideVisit ==
    /\ wide' = visit_one_of(WideList, wide).input
    /\ wideHist' = AfterCalls(visit_one_of(WideList, wide).calls)
    /\ ret' = <<"visit", visit_one_of(WideList, wide).value>>
    /\ UNCHANGED <<heapVars, counter, slotVars, boxVars, threadVars>>

NextWide ==
    \/ WideConstructEmpty
    \/ \E t \in WideTypes, v \in Values : WideConstructFromValue(t, v)
    \/ \E t \in WideTypes, v \in Values : WideAssignValue(t, v)
    \/ WideMoveFrom
    \/ \E t \in WideTypes : WideCopyAssignEmpty(t)
    \/ \E t \in WideTypes : WideDeref(t)
    \/ \E timestamp \in 0..MaxCounter : WideHelperVisit(timestamp)
    \/ WideVisit

SpecWide == Init /\ [][NextWide]_vars

\* ------------------------------ SpecBox: stand-alone optional<A> objects

\* optional<A> b;
BoxConstructEmpty(b) ==
    /\ box' = [box EXCEPT ![b] = optional_default]
    /\ boxRet' = <<"optional()">>
    /\ vivified' = [vivified EXCEPT ![b] = "no"]
    /\ UNCHANGED <<heapVars, counter, wide, ret, wideHist, slotVars, threadVars>>

\* optional<A> b(v);
BoxConstructFromValue(b, v) ==
    /\ box' = [box EXCEPT ![b] = optional_from_value(v)]
    /\ boxRet' = <<"optional(T)">>
    /\ vivified' = [vivified EXCEPT ![b] = "no"]
    /\ UNCHANGED <<heapVars, counter, wide, ret, wideHist, slotVars, threadVars>>

\* optional<A> d(std::move(s));
BoxMoveConstruct(d, s) ==
    /\ d # s
    /\ box' = [box EXCEPT ![d] = optional_move_ctor(box[s]).self,
                          ![s] = optional_move_ctor(box[s]).other]
    /\ boxRet' = <<"optional(optional&&)">>
    /\ vivified' = [vivified EXCEPT ![d] = "no",
                                    ![s] = IF @ = "no" THEN "no" ELSE "moved"]
    /\ UNCHANGED <<heapVars, counter, wide, ret, wideHist, slotVars, threadVars>>

\* optional<A> d(s);
BoxCopyConstruct(d, s) ==
    /\ d # s
    /\ box' = [box EXCEPT ![d] = optional_copy_ctor(box[s])]
    /\ boxRet' = <<"optional(const optional&)">>
    /\ vivified' = [vivified EXCEPT ![d] = "no"]
    /\ UNCHANGED <<heapVars, counter, wide, ret, wideHist, slotVars, threadVars>>

\* b = v;
BoxAssignValue(b, v) ==
    /\ box' = [box EXCEPT ![b] = optional_assign_value(box[b], v)]
    /\ boxRet' = <<"operator=(T)">>
    /\ UNCHANGED <<vivified, heapVars, counter, wide, ret, wideHist, slotVars, threadVars>>

\* d = s;
BoxCopyAssign(d, s) ==
    /\ d # s
    /\ box' = [box EXCEPT ![d] = optional_copy_assign(box[d], box[s])]
    /\ boxRet' = <<"operator=(const optional&)">>
    /\ UNCHANGED <<vivified, heapVars, counter, wide, ret, wideHist, slotVars, threadVars>>

\* bool(b)
BoxBool(b) ==
    /\ boxRet' = <<"bool", has_value(box[b])>>
    /\ UNCHANGED <<vivified, heapVars, counter, wide, ret, wideHist, slotVars, threadVars, box>>

\* *b, which the caller may only use on a box that holds a value.
BoxDeref(b) ==
    /\ has_value(box[b])
    /\ boxRet' = <<"deref", box[b][1]>>
    /\ UNCHANGED <<vivified, heapVars, counter, wide, ret, wideHist, slotVars, threadVars, box>>

\* b.get_or_create()
BoxGetOrCreate(b) ==
    /\ box' = [box EXCEPT ![b] = get_or_create(box[b])]
    /\ boxRet' = <<"get_or_create", get_or_create(box[b])[1]>>
    /\ vivified' = [vivified EXCEPT ![b] = IF has_value(box[b]) THEN @ ELSE "yes"]
    /\ UNCHANGED <<heapVars, counter, wide, ret, wideHist, slotVars, threadVars>>

\* b.reset()
BoxReset(b) ==
    /\ box' = [box EXCEPT ![b] = optional_reset(box[b])]
    /\ boxRet' = <<"reset">>
    /\ vivified' = [vivified EXCEPT ![b] = "no"]
    /\ UNCHANGED <<heapVars, counter, wide, ret, wideHist, slotVars, threadVars>>

\* visit(visitor, b)
BoxVisit(b) ==
    /\ boxRet' = <<"visit", visit_optional("A", box[b])>>
    /\ UNCHANGED <<vivified, heapVars, counter, wide, ret, wideHist, slotVars, threadVars, box>>

NextBox ==
    \/ \E b \in Boxes : BoxConstructEmpty(b)
    \/ \E b \in Boxes, v \in Values : BoxConstructFromValue(b, v)
    \/ \E d \in Boxes, s \in Boxes : BoxMoveConstruct(d, s)
    \/ \E d \in Boxes, s \in Boxes : BoxCopyConstruct(d, s)
    \/ \E b \in Boxes, v \in Values : BoxAssignValue(b, v)
    \/ \E d \in Boxes, s \in Boxes : BoxCopyAssign(d, s)
    \/ \E b \in Boxes : BoxBool(b)
    \/ \E b \in Boxes : BoxDeref(b)
    \/ \E b \in Boxes : BoxGetOrCreate(b)
    \/ \E b \in Boxes : BoxReset(b)
    \/ \E b \in Boxes : BoxVisit(b)

SpecBox == Init /\ [][NextBox]_vars

\* ------------- SpecHeap: optional<A> objects with their unique_ptr and heap

\* The free addresses of heap h.
Free(h) == {a \in Addrs : h[a] = <<>>}

\* The addresses a step may be given by the allocator: a free one when it
\* allocates, none (0) when it does not.
NewAddrs(allocates, h) == IF allocates THEN Free(h) ELSE {0}

\* ~unique_ptr and unique_ptr::reset: the object at p, if any, is deleted.
heap_free(p, h) == IF p = 0 THEN h ELSE [h EXCEPT ![p] = <<>>]

\* get_or_create on a box whose _storage is p; a is the address make_unique
\* returns when it is called.
heap_get_or_create(p, h, a) ==
    IF p = 0
    THEN [ptr |-> a, heap |-> [h EXCEPT ![a] = <<Default>>]]
    ELSE [ptr |-> p, heap |-> h]

\* A copy that copies the pointer, not the object it points to.
heap_copy_ctor_shallow(src, h, a) == [ptr |-> src, heap |-> h]

\* optional(const optional& other) for a source whose _storage is src.
heap_copy_ctor(src, h, a) ==
    IF src # 0
    THEN LET c == heap_get_or_create(0, h, a)
         IN  [ptr |-> c.ptr, heap |-> [c.heap EXCEPT ![c.ptr] = h[src]]]
    ELSE [ptr |-> 0, heap |-> h]

\* operator=(T&&) / operator=(const T&)
heap_assign_value(p, h, a, v) ==
    LET c == heap_get_or_create(p, h, a)
    IN  [ptr |-> c.ptr, heap |-> [c.heap EXCEPT ![c.ptr] = <<v>>]]

\* operator=(const optional& other)
heap_copy_assign(p, src, h, a) ==
    IF src # 0
    THEN LET c == heap_get_or_create(p, h, a)
         IN  [ptr |-> c.ptr, heap |-> [c.heap EXCEPT ![c.ptr] = h[src]]]
    ELSE [ptr |-> p, heap |-> h]

\* The pairs of twin that do not involve box b.
Without(b) == {pair \in twin : b \notin pair}

\* optional<A> b;  the object b held before is destroyed.
HeapConstructEmpty(b) ==
    /\ ptr' = [ptr EXCEPT ![b] = 0]
    /\ heap' = heap_free(ptr[b], heap)
    /\ twin' = Without(b)
    /\ UNCHANGED <<counter, slotVars, wide, ret, wideHist, boxVars, threadVars>>

\* optional<A> b(v);
HeapConstructFromValue(b, v) ==
    LET h == heap_free(ptr[b], heap)
    IN  \E a \in Free(h) :
            /\ ptr' = [ptr EXCEPT ![b] = a]
            /\ heap' = [h EXCEPT ![a] = <<v>>]
            /\ twin' = Without(b)
            /\ UNCHANGED <<counter, slotVars, wide, ret, wideHist, boxVars, threadVars>>

\* optional<A> d(std::move(s));
HeapMoveConstruct(d, s) ==
    /\ d # s
    /\ ptr' = [ptr EXCEPT ![d] = ptr[s], ![s] = 0]
    /\ heap' = heap_free(ptr[d], heap)
    /\ twin' = Without(d)
    /\ UNCHANGED <<counter, slotVars, wide, ret, wideHist, boxVars, threadVars>>

\* optional<A> d(s);
HeapCopyConstruct(d, s) ==
    LET h == heap_free(ptr[d], heap)
    IN  /\ d # s
        /\ \E a \in NewAddrs(ptr[s] # 0, h) :
              LET c == heap_copy_ctor(ptr[s], h, a)
              IN  /\ ptr' = [ptr EXCEPT ![d] = c.ptr]
                  /\ heap' = c.heap
        /\ twin' = Without(d) \cup {{d, s}}
        /\ UNCHANGED <<counter, slotVars, wide, ret, wideHist, boxVars, threadVars>>

\* b = v;
HeapAssignValue(b, v) ==
    /\ \E a \in NewAddrs(ptr[b] = 0, heap) :
          LET c == heap_assign_value(ptr[b], heap, a, v)
          IN  /\ ptr' = [ptr EXCEPT ![b] = c.ptr]
              /\ heap' = c.heap
    /\ UNCHANGED <<counter, slotVars, wide, ret, wideHist, boxVars, threadVars, twin>>

\* d = s;
HeapCopyAssign(d, s) ==
    /\ d # s
    /\ \E a \in NewAddrs(ptr[s] # 0 /\ ptr[d] = 0, heap) :
          LET c == heap_copy_assign(ptr[d], ptr[s], heap, a)
          IN  /\ ptr' = [ptr EXCEPT ![d] = c.ptr]
              /\ heap' = c.heap
    /\ twin' = twin \cup {{d, s}}
    /\ UNCHANGED <<counter, slotVars, wide, ret, wideHist, boxVars, threadVars>>

\* b.get_or_create()
HeapGetOrCreate(b) ==
    /\ \E a \in NewAddrs(ptr[b] = 0, heap) :
          LET c == heap_get_or_create(ptr[b], heap, a)
          IN  /\ ptr' = [ptr EXCEPT ![b] = c.ptr]
              /\ heap' = c.heap
    /\ UNCHANGED <<counter, slotVars, wide, ret, wideHist, boxVars, threadVars, twin>>

\* b.reset()
HeapReset(b) ==
    /\ ptr' = [ptr EXCEPT ![b] = 0]
    /\ heap' = heap_free(ptr[b], heap)
    /\ UNCHANGED <<counter, slotVars, wide, ret, wideHist, boxVars, threadVars, twin>>

NextHeap ==
    \/ \E b \in Boxes : HeapConstructEmpty(b)
    \/ \E b \in Boxes, v \in Values : HeapConstructFromValue(b, v)
    \/ \E d \in Boxes, s \in Boxes : HeapMoveConstruct(d, s)
    \/ \E d \in Boxes, s \in Boxes : HeapCopyConstruct(d, s)
    \/ \E b \in Boxes, v \in Values : HeapAssignValue(b, v)
    \/ \E d \in Boxes, s \in Boxes : HeapCopyAssign(d, s)
    \/ \E b \in Boxes : HeapGetOrCreate(b)
    \/ \E b \in Boxes : HeapReset(b)

SpecHeap == Init /\ [][NextHeap]_vars

\* --------------------- SpecThreads: threads running x = T{v} step by step

\* The draws begun and not yet made.
Pending == Cardinality({th \in Threads : pc[th] = "draw"})

\* Some call on x's slot t is in progress.
InProgress(t) == \E th \in Threads : pc[th] # "idle" /\ arg[th][1] = t

\* Thread th enters option<T>::operator=(T&&) on x with value v.
Call(th, t, v) ==
    /\ pc[th] = "idle"
    /\ counter + Pending < MaxCounter
    /\ pc' = [pc EXCEPT ![th] = "draw"]
    /\ arg' = [arg EXCEPT ![th] = <<t, v>>]
    /\ start' = [start EXCEPT ![th] = Len(drawn)]
    /\ raced' = [raced EXCEPT ![t] = @ \/ InProgress(t)]
    /\ UNCHANGED <<heapVars, counter, sets, wide, ret, wideHist, assigned, origin, boxVars, local, drawn, valueOf>>

\* ++_counter as a separate load and store: the load may date from when the
\* call began.
FetchAddTorn(th) ==
    /\ pc[th] = "draw"
    /\ \E seen \in {start[th], counter} :
          /\ counter' = seen + 1
          /\ local' = [local EXCEPT ![th] = seen + 1]
          /\ drawn' = Append(drawn, seen + 1)
    /\ pc' = [pc EXCEPT ![th] = "stamp"]
    /\ UNCHANGED <<heapVars, sets, wide, ret, wideHist, assigned, origin, boxVars, arg, start, valueOf, raced>>

\* ++_counter : one atomic read-modify-write of the std::atomic_uint64_t.
FetchAdd(th) ==
    /\ pc[th] = "draw"
    /\ counter' = IncrementCounter(counter)
    /\ local' = [local EXCEPT ![th] = IncrementCounter(counter)]
    /\ drawn' = Append(drawn, IncrementCounter(counter))
    /\ pc' = [pc EXCEPT ![th] = "stamp"]
    /\ UNCHANGED <<heapVars, sets, wide, ret, wideHist, assigned, origin, boxVars, arg, start, valueOf, raced>>

\* _timestamp = <the value drawn> : a plain store.
\* The value drawn is discarded: _timestamp is not written.
StoreTimestampSkipped(th) ==
    /\ pc[th] = "stamp"
    /\ pc' = [pc EXCEPT ![th] = "store"]
    /\ UNCHANGED <<heapVars, counter, sets, wide, ret, wideHist, assigned, origin, boxVars, arg, local, start, drawn, valueOf, raced>>

StoreTimestamp(th) ==
    /\ pc[th] = "stamp"
    /\ sets' = [sets EXCEPT !["x"][arg[th][1]].timestamp = local[th]]
    /\ pc' = [pc EXCEPT ![th] = "store"]
    /\ UNCHANGED <<heapVars, counter, wide, ret, wideHist, assigned, origin, boxVars, arg, local, start, drawn, valueOf, raced>>

\* _storage = value;  then the call returns.
StoreValue(th) ==
    /\ pc[th] = "store"
    /\ sets' = [sets EXCEPT !["x"][arg[th][1]].storage =
                    optional_assign_value(sets["x"][arg[th][1]].storage, arg[th][2])]
    /\ valueOf' = [valueOf EXCEPT ![arg[th][1]] = local[th]]
    /\ pc' = [pc EXCEPT ![th] = "idle"]
    /\ UNCHANGED <<heapVars, counter, wide, ret, wideHist, assigned, origin, boxVars, arg, local, start, drawn, raced>>

NextThreads ==
    \/ \E th \in Threads, t \in Types, v \in Values : Call(th, t, v)
    \/ \E th \in Threads : FetchAdd(th)
    \/ \E th \in Threads : StoreTimestamp(th)
    \/ \E th \in Threads : StoreValue(th)

SpecThreads == Init /\ [][NextThreads]_vars

TypeOK ==
    /\ counter \in 0..MaxCounter
    /\ \A s \in Sets, t \in Types :
          /\ sets[s][t].timestamp \in 0..MaxCounter
          /\ Len(sets[s][t].storage) \in {0, 1}
    /\ wideHist \in [WideTypes -> {"empty", "vivified", "other"}]

\* ----------------------------------------------------------------- claims

\* The value a slot yields when it is read: the stored value, or the default
\* value the read creates.
SlotValue(slot) == IF slot.storage # <<>> THEN slot.storage[1] ELSE Default

\* The orders in which a type list can be written.
Perms(tl) ==
    {p \in [1..Len(tl) -> {tl[i] : i \in 1..Len(tl)}] :
        \A i, j \in 1..Len(tl) : i # j => p[i] # p[j]}

\* C1: for every state of z and every threshold, the resolution returns the
\* handler's output on the value of the slot with the greatest timestamp among
\* the slots whose timestamp exceeds the threshold, and returns nothing when
\* no slot's timestamp exceeds it.
C1_ResolutionReturnsNewest ==
    \A timestamp \in 0..MaxCounter :
        LET r    == visitor_helper_visit(WideList, timestamp, wide)
            cand == {t \in WideTypes : wide[t].timestamp > timestamp}
        IN  IF cand = {}
            THEN r.result = <<>>
            ELSE \E t \in cand :
                    /\ \A u \in cand : wide[u].timestamp <= wide[t].timestamp
                    /\ r.result = <<VisitorVisit(t, SlotValue(wide[t]))>>

\* C1 witness: a query has run on z while, for some threshold above 0, one
\* slot is at or below the threshold and two are above it, the newest of them
\* not being the first of the list.
C1_Witness ==
    /\ Len(ret) = 3
    /\ ret[1] = "helper"
    /\ \E timestamp \in 1..MaxCounter :
          /\ ret[2] = timestamp
          /\ ret[3] = <<VisitorVisit("B", SlotValue(wide["B"]))>>
          /\ wide["C"].timestamp > 0
          /\ wide["C"].timestamp <= timestamp
          /\ wide["A"].timestamp > timestamp
          /\ wide["B"].timestamp > wide["A"].timestamp
          /\ visitor_helper_visit(WideList, timestamp, wide).result
                = <<VisitorVisit("B", SlotValue(wide["B"]))>>

\* C2: a value-assignment to a slot of a set leaves the set in a state in
\* which the query with threshold 0 returns the handler's output on the value
\* just assigned, whatever was assigned to the set's slots before.
C2_LastWriteWins ==
    [][\A s \in Sets, t \in Types, v \in Values :
          AssignValue(s, t, v)
              => visit_one_of(TypeList, sets'[s]).value = VisitorVisit(t, v)]_vars

\* C2 witness: x after A := a1, B := b1, A := a2 (the third draw went to A,
\* the second to B), the query returning the handler's output on A's value.
C2_Witness ==
    /\ sets["x"]["A"].timestamp = 3
    /\ sets["x"]["B"].timestamp = 2
    /\ sets["x"]["B"].storage # <<>>
    /\ sets["x"]["A"].storage # <<>>
    /\ sets["x"]["A"].storage # sets["x"]["B"].storage
    /\ visit_one_of(TypeList, sets["x"]).value
          = VisitorVisit("A", sets["x"]["A"].storage[1])

\* z as its constructor leaves it.
Fresh == wide = EmptyWide

\* C3 as stated: the query of a freshly constructed set through visit returns
\* an outcome that no handler invocation could have returned.
C3_FreshVisitDistinguishable ==
    Fresh => visit_one_of(WideList, wide).value \notin Results

\* C3 amended: on a freshly constructed set the resolution with threshold 0
\* invokes no handler and returns an absent result, and visit returns the
\* value-initialised result, leaving the set as it was.
C3_FreshVisitDefault ==
    Fresh =>
        /\ visitor_helper_visit(WideList, 0, wide).result = <<>>
        /\ visitor_helper_visit(WideList, 0, wide).calls = <<>>
        /\ visit_one_of(WideList, wide).value = DefaultResult
        /\ visit_one_of(WideList, wide).input = wide

\* C3 witness: visit has just returned the value-initialised result on z,
\* which is as constructed.
C3_Witness == ret = <<"visit", DefaultResult>> /\ Fresh

\* C4: the values drawn from the counter are pairwise distinct and nonzero,
\* and a draw whose call began after another draw completed returned a
\* greater value than that draw.
C4_DrawsDistinctOrdered ==
    /\ \A i, j \in 1..Len(drawn) : i # j => drawn[i] # drawn[j]
    /\ \A i \in 1..Len(drawn) : drawn[i] # 0
    /\ \A th \in Threads :
          pc[th] \in {"stamp", "store"} =>
              \A k \in 1..start[th] : local[th] > drawn[k]

\* C4 witness: both threads hold a value drawn while the other's call was in
\* progress, and an earlier draw had completed before either call began.
C4_Witness ==
    /\ Len(drawn) = 3
    /\ \A th \in Threads : pc[th] = "stamp" /\ start[th] = 1

\* C5: copying a slot that holds a value, by copy construction or by copy
\* assignment, gives the target the source's timestamp and value and changes
\* neither the counter nor the source.
C5_CopyPreservesTimestamp ==
    [][\A d \in Sets, s \in Sets :
          /\ CopyConstruct(d, s) =>
                /\ counter' = counter
                /\ sets'[s] = sets[s]
                /\ \A t \in Types :
                      has_value(sets[s][t].storage) =>
                          /\ sets'[d][t].timestamp = sets[s][t].timestamp
                          /\ sets'[d][t].storage = sets[s][t].storage
          /\ \A t \in Types :
                CopyAssign(d, s, t) /\ has_value(sets[s][t].storage) =>
                    /\ counter' = counter
                    /\ sets'[s] = sets[s]
                    /\ sets'[d][t].timestamp = sets[s][t].timestamp
                    /\ sets'[d][t].storage = sets[s][t].storage]_vars

\* C5 witness: x and y hold the same nonzero timestamp and the same value in
\* one slot, which only a copy produces, while their other slots differ.
C5_Witness ==
    /\ sets["x"]["A"].timestamp # 0
    /\ has_value(sets["x"]["A"].storage)
    /\ sets["x"]["A"] = sets["y"]["A"]
    /\ sets["x"]["B"].timestamp # sets["y"]["B"].timestamp

\* C6 as stated: a slot's timestamp is 0 exactly when the slot has never been
\* the target of an assignment that wrote a timestamp (a value construction, a
\* value assignment, or a copy or move from a slot that had one).
C6_ZeroIffNeverAssigned ==
    \A s \in Sets, t \in Types : (sets[s][t].timestamp = 0) <=> ~assigned[s][t]

\* C6 amended: a slot's timestamp is 0 exactly when the timestamp it holds
\* does not stem from a value construction or value assignment: the slot was
\* constructed empty, or last copied or moved from a slot whose timestamp was
\* 0, and not value-assigned since.
C6_ZeroIffNoValueOrigin ==
    \A s \in Sets, t \in Types : (sets[s][t].timestamp = 0) <=> ~origin[s][t]

\* C6 witness: a slot that was assigned a value, and still holds it, is back
\* at timestamp 0 after a copy assignment from an unassigned slot, while
\* another slot carries a timestamp it received by copy.
C6_Witness ==
    /\ \E s \in Sets, t \in Types :
          /\ assigned[s][t]
          /\ sets[s][t].timestamp = 0
          /\ sets[s][t].storage # <<>>
          /\ sets[s][t].storage # <<Default>>
    /\ \E t \in Types :
          /\ sets["x"][t].timestamp # 0
          /\ sets["x"][t].timestamp = sets["y"][t].timestamp

\* C7: a dereference of a slot, a resolution with any threshold and a visit
\* leave every slot's timestamp and the counter as they were.
C7_ReadsKeepTimestamps ==
    [][(\/ \E t \in WideTypes : WideDeref(t)
        \/ \E timestamp \in 0..MaxCounter : WideHelperVisit(timestamp)
        \/ WideVisit)
           => /\ counter' = counter
              /\ \A t2 \in WideTypes : wide'[t2].timestamp = wide[t2].timestamp]_vars

\* C7 witness: the dereference of slot C has just returned the default value,
\* the slot holds it and has timestamp 0, and another slot has been written.
C7_Witness ==
    /\ ret = <<"deref", "C", Default>>
    /\ wide["C"] = [storage |-> <<Default>>, timestamp |-> 0]
    /\ wide["A"].timestamp > 0

\* C8 as stated: after copy construction or copy assignment of a box the
\* target holds a value exactly when the source does, and then an equal one.
C8_BoxCopyMirrorsSource ==
    [][\A d \in Boxes, s \in Boxes :
          (BoxCopyConstruct(d, s) \/ BoxCopyAssign(d, s)) => box'[d] = box[s]]_vars

\* C9: for every state of z and every threshold, the resolution returns the
\* same result for every order of the type list.
C9_OrderIndependent ==
    \A timestamp \in 0..MaxCounter, p \in Perms(WideList) :
        visitor_helper_visit(p, timestamp, wide).result
            = visitor_helper_visit(WideList, timestamp, wide).result

\* C9 witness: a query has run on z with three written slots whose timestamps
\* rise from the last type of the list to the first.
C9_Witness ==
    /\ Len(ret) = 3
    /\ ret[1] = "helper"
    /\ ret[3] = <<VisitorVisit("A", SlotValue(wide["A"]))>>
    /\ wide["C"].timestamp > 0
    /\ wide["B"].timestamp > wide["C"].timestamp
    /\ wide["A"].timestamp > wide["B"].timestamp

\* C10: the nonzero timestamps of the slots of one set are pairwise distinct.
C10_NoTies ==
    \A s \in Sets, t1 \in Types, t2 \in Types :
        (t1 # t2 /\ sets[s][t1].timestamp # 0)
            => sets[s][t1].timestamp # sets[s][t2].timestamp

\* C10 witness: x and y share a timestamp in slot A through a copy, and each
\* has another nonzero timestamp in slot B.
C10_Witness ==
    /\ sets["x"]["A"].timestamp # 0
    /\ sets["x"]["A"].timestamp = sets["y"]["A"].timestamp
    /\ sets["x"]["B"].timestamp # 0
    /\ sets["y"]["B"].timestamp # 0
    /\ sets["x"]["B"].timestamp # sets["y"]["B"].timestamp

\* C11: a slot of z that was constructed empty and has since only been
\* dereferenced holds the default value with timestamp 0, and no resolution
\* with any threshold hands it to the handler.
C11_VivifiedSlotInvisible ==
    \A t \in WideTypes :
        wideHist[t] = "vivified" =>
            /\ wide[t] = [storage |-> <<Default>>, timestamp |-> 0]
            /\ \A timestamp \in 0..MaxCounter :
                  LET calls == visitor_helper_visit(WideList, timestamp, wide).calls
                  IN  \A i \in 1..Len(calls) : calls[i][1] # t

\* C11 witness: slot A was only dereferenced, and a resolution with
\* threshold 0 has just run and picked a written slot behind it in the list.
C11_Witness ==
    /\ wideHist["A"] = "vivified"
    /\ Len(ret) = 3
    /\ ret[1] = "helper"
    /\ ret[2] = 0
    /\ ret[3] = <<VisitorVisit("B", SlotValue(wide["B"]))>>

\* C12: a value-assignment to, or a dereference of, slot t of set s leaves
\* the box and the timestamp of every other slot of s, and of every slot of
\* every other set, as they were.
C12_SlotsIndependent ==
    [][\A s \in Sets, t \in Types :
          (Deref(s, t) \/ \E v \in Values : AssignValue(s, t, v)) =>
              \A s2 \in Sets, t2 \in Types :
                  (s2 # s \/ t2 # t) => sets'[s2][t2] = sets[s2][t2]]_vars

\* C12 witness: x's slot A was written last (timestamp 3), after y's slot A
\* was dereferenced; x's slot B and y's slot B still hold the values and the
\* timestamps of their earlier writes.
C12_Witness ==
    /\ counter = 3
    /\ sets["x"]["A"] = [storage |-> <<0>>, timestamp |-> 3]
    /\ sets["x"]["B"] = [storage |-> <<1>>, timestamp |-> 1]
    /\ sets["y"]["B"] = [storage |-> <<1>>, timestamp |-> 2]
    /\ sets["y"]["A"] = [storage |-> <<Default>>, timestamp |-> 0]

\* What is seen through box b when its _storage is read from pointers pt and
\* heap h: nothing, or the value of the object it points to.
Observe(pt, h, b) == IF pt[b] = 0 THEN <<>> ELSE h[pt[b]]

\* C13: two boxes of which one was copy-constructed or copy-assigned from
\* the other never point to the same object, and a write, a get_or_create or
\* a reset on one of them leaves what is seen through the other unchanged.
C13_CopiesOwnStorage ==
    [][/\ \A b \in Boxes, c \in Boxes :
             (b # c /\ {b, c} \in twin' /\ ptr'[b] # 0) => ptr'[b] # ptr'[c]
       /\ \A b \in Boxes :
             (HeapReset(b) \/ HeapGetOrCreate(b) \/ \E v \in Values : HeapAssignValue(b, v)) =>
                 \A c \in Boxes :
                     (c # b /\ {b, c} \in twin) =>
                         Observe(ptr', heap', c) = Observe(ptr, heap, c)]_vars

\* C13 witness: q and p are copies of one another, q was written or created
\* anew since, and the two hold different values at different addresses.
C13_Witness ==
    /\ {"p", "q"} \in twin
    /\ Observe(ptr, heap, "p") = <<1>>
    /\ Observe(ptr, heap, "q") = <<0>>

\* C14 as stated: a box on which get_or_create was called while it was empty
\* holds a value in every later state until reset() is called on it.
C14_VivifiedUntilReset ==
    \A b \in Boxes : vivified[b] # "no" => has_value(box[b])

\* C14, amended: get_or_create on an empty box returns the default value and
\* leaves the box holding it; on a box that holds a value it returns that
\* value and changes no box; and a box vivified this way holds a value, and
\* bool() on it returns true, until it is reset or moved from.
C14_VivifiedUntilResetOrMove ==
    [][\A b \in Boxes :
          /\ vivified'[b] = "yes" => has_value(box'[b])
          /\ (BoxBool(b) /\ vivified[b] = "yes") => boxRet' = <<"bool", TRUE>>
          /\ BoxGetOrCreate(b) =>
                IF has_value(box[b])
                THEN box' = box /\ boxRet' = <<"get_or_create", box[b][1]>>
                ELSE /\ box' = [box EXCEPT ![b] = <<Default>>]
                     /\ boxRet' = <<"get_or_create", Default>>]_vars

\* C14 witness: p was vivified by get_or_create and not reset or moved from
\* since, the other boxes are empty, and bool() has just returned true.
C14_Witness ==
    /\ vivified["p"] = "yes"
    /\ box = [b \in Boxes |-> IF b = "p" THEN <<Default>> ELSE <<>>]
    /\ boxRet = <<"bool", TRUE>>

\* C15: visit(visitor, b) on a box returns the handler's output on the stored
\* value when the box holds one and nothing when it is empty (the handler is
\* not called), and leaves every box as it was.
C15_BoxVisit ==
    [][\A b \in Boxes :
          BoxVisit(b) =>
              /\ box' = box
              /\ boxRet' = <<"visit", IF has_value(box[b])
                                      THEN <<VisitorVisit("A", box[b][1])>>
                                      ELSE <<>>>>]_vars

\* C15 witness: a visit of a box holding 1 has just returned the handler's
\* output on 1, while another box is empty.
C15_Witness ==
    /\ boxRet = <<"visit", <<VisitorVisit("A", 1)>>>>
    /\ box["p"] = <<1>>
    /\ box["q"] = <<>>
    /\ box["r"] = <<>>

\* C16: when no call on x's slot t is in progress and the slot's timestamp
\* was not drawn by the call that stored its value, two calls on that slot
\* overlapped; the witness shows that such a state is reached.
C16_MismatchOnlyFromRace ==
    \A t \in Types :
        (~InProgress(t) /\ sets["x"][t].timestamp # valueOf[t]) => raced[t]

\* C16 witness: both threads have returned, and x's slot A carries the
\* timestamp one call drew and the value the other call stored.
C16_Witness ==
    /\ \A th \in Threads : pc[th] = "idle"
    /\ sets["x"]["A"].timestamp # 0
    /\ valueOf["A"] # 0
    /\ sets["x"]["A"].timestamp # valueOf["A"]

\* C17: for every state of z and every threshold, the resolution calls the
\* handler exactly once, on the value of the slot with the greatest timestamp,
\* when some slot's timestamp exceeds the threshold, and not at all otherwise.
C17_HandlerCalledOnce ==
    \A timestamp \in 0..MaxCounter :
        LET cand  == {t \in WideTypes : wide[t].timestamp > timestamp}
            calls == visitor_helper_visit(WideList, timestamp, wide).calls
        IN  IF cand = {}
            THEN calls = <<>>
            ELSE \E t \in cand :
                    /\ \A u \in cand : wide[u].timestamp <= wide[t].timestamp
                    /\ calls = <<<<t, SlotValue(wide[t])>>>>

\* C17 witness: a query with threshold 0 has run on z while all three slots
\* were candidates in list order, so that A and then B were tentative
\* candidates before C, the newest, was chosen.
C17_Witness ==
    /\ ret = <<"helper", 0, <<VisitorVisit("C", SlotValue(wide["C"]))>>>>
    /\ wide["A"].timestamp > 0
    /\ wide["B"].timestamp > wide["A"].timestamp
    /\ wide["C"].timestamp > wide["B"].timestamp

\* C18: every slot of z whose timestamp is nonzero holds a value in its box.
C18_AssignedImpliesPresent ==
    \A t \in WideTypes : wide[t].timestamp # 0 => has_value(wide[t].storage)

\* C19: after every step no slot's timestamp exceeds the counter, and right
\* after a value-assignment s = T{v} the timestamp of the slot assigned is
\* greater than the timestamp of every other slot of every set, copies
\* included.
C19_FreshWriteDominates ==
    [][/\ \A s \in Sets, t \in Types : sets'[s][t].timestamp <= counter'
       /\ \A s \in Sets, t \in Types, v \in Values :
             AssignValue(s, t, v) =>
                 \A s2 \in Sets, t2 \in Types :
                     (s2 # s \/ t2 # t) =>
                         sets'[s][t].timestamp > sets'[s2][t2].timestamp]_vars

\* C19 witness: y was copied from x when x's slots carried timestamps 1 and
\* 2, and x's slot A has been written since with timestamp 3, the counter's
\* value.
C19_Witness ==
    /\ counter = 3
    /\ sets["x"]["A"].timestamp = 3
    /\ sets["x"]["B"].timestamp = 2
    /\ sets["y"]["A"].timestamp = 1
    /\ sets["y"]["B"].timestamp = 2

====
